---- MODULE Spec2Model ----
(***************************************************************************)
(* State-machine model of frontend/src/App.js: the App component's six     *)
(* useState cells, the two asynchronous fetchers (fetchData and            *)
(* fetchLevelDetails), the user's clicks, and the render dispatch.         *)
(* Every handler of the source is one action; a continuation after an      *)
(* await is its own action, enabled once the awaited promise has settled.  *)
(***************************************************************************)
EXTENDS Integers, Sequences, FiniteSets

(* ------------------------------ bounds --------------------------------- *)

\* Level ids delivered by the server are 0 .. MaxLevels-1, and the roadmap
\* list holds at most MaxLevels levels.
MaxLevels == 2

\* The user clicks level cards at most MaxClicks times.
MaxClicks == 2

(* --------------------------- values of the code ------------------------ *)

\* JavaScript null in a cell that otherwise holds a level id: useState(null).
Null == -1

\* JavaScript null in the cell that otherwise holds a detail bundle.
NoDetails == [isNull |-> TRUE]

\* JavaScript truthiness of a value that is null or a number, as used by
\* `selectedLevel && <LevelDetails />`: null and 0 are falsy.
ToBoolean(v) == v # Null /\ v # 0

\* Truthiness of the levelDetails cell, as used by `if (!levelDetails)`.
DetailsTruthy(d) == d # NoDetails

(* ------------------------- the server's answers ------------------------ *)

LevelIds == 0 .. (MaxLevels - 1)

\* One RoadmapLevel record as delivered by the API.
Level(x) == [id |-> x, level_number |-> x + 1]

\* One IndustryInsight record as delivered by the API.
Insight(k) == [id |-> k]

\* Sequences over S without repetition, of length at most n.
InjSeqs(S, n) ==
  UNION { { s \in [1..k -> S] : \A i, j \in 1..k : i # j => s[i] # s[j] } : k \in 0..n }

\* GET /api/roadmap: a list of levels with distinct ids, in any order.
RoadmapResponses ==
  { [i \in DOMAIN s |-> Level(s[i])] : s \in InjSeqs(LevelIds, MaxLevels) }

\* GET /api/industry-insights: a list of insights.
InsightsResponses ==
  { <<>>, <<Insight(1)>>, <<Insight(2), Insight(1)>> }

\* GET /api/roadmap/level/X: a bundle whose level.id is X; the other parts of
\* the bundle vary from one answer to the next.
DetailResponses(x) ==
  { [level |-> Level(x), skills |-> s] : s \in { <<>>, <<"skill">> } }

(* ------------------------------- state --------------------------------- *)

VARIABLES
  roadmapData,       \* useState([])
  selectedLevel,     \* useState(null)
  levelDetails,      \* useState(null)
  industryInsights,  \* useState([])
  loading,           \* useState(true)
  activeTab,         \* useState('roadmap')
  fetchDataPc,       \* position of fetchData: "mount", "await", "done"
  roadmapRes,        \* the promise of axios.get(`${API}/roadmap`)
  insightsRes,       \* the promise of axios.get(`${API}/industry-insights`)
  requests,          \* every axios.get call issued so far, in order
  pending,           \* indices into requests of the detail requests in flight
  clicks,            \* number of level-card clicks so far
  event,             \* the handler that ran last
  history            \* the level-card clicks, the answers to detail requests and
                     \* the presses of the close button so far, in order

view == <<roadmapData, selectedLevel, levelDetails, industryInsights, loading, activeTab>>

vars == <<roadmapData, selectedLevel, levelDetails, industryInsights, loading,
          activeTab, fetchDataPc, roadmapRes, insightsRes, requests, pending,
          clicks, event, history>>

Idle == [status |-> "idle"]
Pending == [status |-> "pending"]
Rejected == [status |-> "rejected"]
Fulfilled(d) == [status |-> "fulfilled", data |-> d]

\* Promise.all([a, b]): rejected as soon as one of the two is rejected,
\* fulfilled once both are fulfilled, pending otherwise.
PromiseAll(a, b) ==
  IF a.status = "rejected" \/ b.status = "rejected" THEN "rejected"
  ELSE IF a.status = "fulfilled" /\ b.status = "fulfilled" THEN "fulfilled"
  ELSE "pending"

Init ==
  /\ roadmapData = <<>>
  /\ selectedLevel = Null
  /\ levelDetails = NoDetails
  /\ industryInsights = <<>>
  /\ loading = TRUE
  /\ activeTab = "roadmap"
  /\ fetchDataPc = "mount"
  /\ roadmapRes = Idle
  /\ insightsRes = Idle
  /\ requests = <<>>
  /\ pending = {}
  /\ clicks = 0
  /\ event = [type |-> "init"]
  /\ history = <<>>

(* ------------------------------ rendering ------------------------------ *)

\* The LevelDetails component: nothing when levelDetails is null.
LevelDetailsView ==
  IF ~DetailsTruthy(levelDetails) THEN <<>> ELSE <<"LevelDetails">>

\* Render without the early return of the loading branch: the spinner
\* followed by the page.
RenderNoEarlyReturn ==
  (IF loading THEN <<"Spinner">> ELSE <<>>)
  \o (IF activeTab = "roadmap" THEN <<"VisualRoadmap">> ELSE <<>>)
  \o (IF activeTab = "insights" THEN <<"IndustryInsights">> ELSE <<>>)
  \o (IF ToBoolean(selectedLevel) THEN LevelDetailsView ELSE <<>>)

\* The components App returns, in document order.
Render ==
  IF loading THEN <<"Spinner">>
  ELSE (IF activeTab = "roadmap" THEN <<"VisualRoadmap">> ELSE <<>>)
       \o (IF activeTab = "insights" THEN <<"IndustryInsights">> ELSE <<>>)
       \o (IF ToBoolean(selectedLevel) THEN LevelDetailsView ELSE <<>>)

Count(c) == Cardinality({ i \in DOMAIN Render : Render[i] = c })

Rendered(c) == Count(c) > 0

\* The ids of the level cards of the roadmap panel, in document order.
RoadmapCards ==
  IF Rendered("VisualRoadmap")
  THEN [i \in DOMAIN roadmapData |-> roadmapData[i].id]
  ELSE <<>>

\* The ids of the insight cards of the insights panel, in document order.
InsightCards ==
  IF Rendered("IndustryInsights")
  THEN [i \in DOMAIN industryInsights |-> industryInsights[i].id]
  ELSE <<>>

\* The level whose title the detail view shows.
ShownLevel == levelDetails.level

(* ------------------------------- actions ------------------------------- *)

\* useEffect(() => { fetchData(); }, []): fetchData runs up to its await,
\* issuing both requests.
Mount ==
  /\ fetchDataPc = "mount"
  /\ requests' = requests \o << [url |-> "roadmap", id |-> Null],
                                [url |-> "industry-insights", id |-> Null] >>
  /\ roadmapRes' = Pending
  /\ insightsRes' = Pending
  /\ fetchDataPc' = "await"
  /\ event' = [type |-> "mount"]
  /\ UNCHANGED history
  /\ UNCHANGED <<view, pending, clicks>>

RoadmapFulfilled(d) ==
  /\ roadmapRes = Pending
  /\ roadmapRes' = Fulfilled(d)
  /\ event' = [type |-> "roadmapFulfilled"]
  /\ UNCHANGED history
  /\ UNCHANGED <<view, fetchDataPc, insightsRes, requests, pending, clicks>>

RoadmapRejected ==
  /\ roadmapRes = Pending
  /\ roadmapRes' = Rejected
  /\ event' = [type |-> "roadmapRejected"]
  /\ UNCHANGED history
  /\ UNCHANGED <<view, fetchDataPc, insightsRes, requests, pending, clicks>>

InsightsFulfilled(d) ==
  /\ insightsRes = Pending
  /\ insightsRes' = Fulfilled(d)
  /\ event' = [type |-> "insightsFulfilled"]
  /\ UNCHANGED history
  /\ UNCHANGED <<view, fetchDataPc, roadmapRes, requests, pending, clicks>>

InsightsRejected ==
  /\ insightsRes = Pending
  /\ insightsRes' = Rejected
  /\ event' = [type |-> "insightsRejected"]
  /\ UNCHANGED history
  /\ UNCHANGED <<view, fetchDataPc, roadmapRes, requests, pending, clicks>>

\* fetchData's try branch forgetting setIndustryInsights.
FetchDataThenDropsInsights ==
  /\ fetchDataPc = "await"
  /\ PromiseAll(roadmapRes, insightsRes) = "fulfilled"
  /\ roadmapData' = roadmapRes.data
  /\ loading' = FALSE
  /\ fetchDataPc' = "done"
  /\ event' = [type |-> "fetchDataThen"]
  /\ UNCHANGED history
  /\ UNCHANGED <<industryInsights, selectedLevel, levelDetails, activeTab,
                 roadmapRes, insightsRes, requests, pending, clicks>>

\* fetchData after its await, try branch.
FetchDataThen ==
  /\ fetchDataPc = "await"
  /\ PromiseAll(roadmapRes, insightsRes) = "fulfilled"
  /\ roadmapData' = roadmapRes.data
  /\ industryInsights' = insightsRes.data
  /\ loading' = FALSE
  /\ fetchDataPc' = "done"
  /\ event' = [type |-> "fetchDataThen"]
  /\ UNCHANGED history
  /\ UNCHANGED <<selectedLevel, levelDetails, activeTab, roadmapRes, insightsRes,
                 requests, pending, clicks>>

\* fetchData's catch branch forgetting setLoading(false).
FetchDataCatchKeepsLoading ==
  /\ fetchDataPc = "await"
  /\ PromiseAll(roadmapRes, insightsRes) = "rejected"
  /\ fetchDataPc' = "done"
  /\ event' = [type |-> "fetchDataCatch"]
  /\ UNCHANGED history
  /\ UNCHANGED <<view, roadmapRes, insightsRes, requests, pending, clicks>>

\* fetchData's catch branch keeping the collection that did arrive.
FetchDataCatchKeepsPartial ==
  /\ fetchDataPc = "await"
  /\ PromiseAll(roadmapRes, insightsRes) = "rejected"
  /\ roadmapData' = IF roadmapRes.status = "fulfilled" THEN roadmapRes.data ELSE roadmapData
  /\ industryInsights' =
       IF insightsRes.status = "fulfilled" THEN insightsRes.data ELSE industryInsights
  /\ loading' = FALSE
  /\ fetchDataPc' = "done"
  /\ event' = [type |-> "fetchDataCatch"]
  /\ UNCHANGED history
  /\ UNCHANGED <<selectedLevel, levelDetails, activeTab, roadmapRes, insightsRes,
                 requests, pending, clicks>>

\* fetchData after its await, catch branch.
FetchDataCatch ==
  /\ fetchDataPc = "await"
  /\ PromiseAll(roadmapRes, insightsRes) = "rejected"
  /\ loading' = FALSE
  /\ fetchDataPc' = "done"
  /\ event' = [type |-> "fetchDataCatch"]
  /\ UNCHANGED history
  /\ UNCHANGED <<roadmapData, industryInsights, selectedLevel, levelDetails,
                 activeTab, roadmapRes, insightsRes, requests, pending, clicks>>

\* Both navigation buttons wired to the insights panel.
ClickTabAlwaysInsights(t) ==
  /\ ~loading
  /\ activeTab' = "insights"
  /\ event' = [type |-> "clickTab", tab |-> t]
  /\ UNCHANGED history
  /\ UNCHANGED <<roadmapData, selectedLevel, levelDetails, industryInsights,
                 loading, fetchDataPc, roadmapRes, insightsRes, requests,
                 pending, clicks>>

\* onClick={() => setActiveTab(t)} of the navigation button of panel t.
ClickTab(t) ==
  /\ ~loading
  /\ activeTab' = t
  /\ event' = [type |-> "clickTab", tab |-> t]
  /\ UNCHANGED history
  /\ UNCHANGED <<roadmapData, selectedLevel, levelDetails, industryInsights,
                 loading, fetchDataPc, roadmapRes, insightsRes, requests,
                 pending, clicks>>

\* fetchLevelDetails raising the loading flag while its request is in flight.
ClickLevelSetsLoading(i) ==
  /\ clicks < MaxClicks
  /\ i \in DOMAIN RoadmapCards
  /\ requests' = Append(requests, [url |-> "roadmap/level", id |-> RoadmapCards[i]])
  /\ pending' = pending \cup {Len(requests) + 1}
  /\ clicks' = clicks + 1
  /\ loading' = TRUE
  /\ event' = [type |-> "clickLevel", id |-> RoadmapCards[i]]
  /\ history' = Append(history, [e |-> "click", req |-> Len(requests) + 1])
  /\ UNCHANGED <<roadmapData, selectedLevel, levelDetails, industryInsights,
                 activeTab, fetchDataPc, roadmapRes, insightsRes>>

\* fetchLevelDetails setting the selection before its await.
ClickLevelSelectsEagerly(i) ==
  /\ clicks < MaxClicks
  /\ i \in DOMAIN RoadmapCards
  /\ requests' = Append(requests, [url |-> "roadmap/level", id |-> RoadmapCards[i]])
  /\ pending' = pending \cup {Len(requests) + 1}
  /\ clicks' = clicks + 1
  /\ selectedLevel' = RoadmapCards[i]
  /\ event' = [type |-> "clickLevel", id |-> RoadmapCards[i]]
  /\ history' = Append(history, [e |-> "click", req |-> Len(requests) + 1])
  /\ UNCHANGED <<roadmapData, levelDetails, industryInsights, loading,
                 activeTab, fetchDataPc, roadmapRes, insightsRes>>

\* fetchLevelDetails skipping the request when one for the same level is
\* already in flight.
ClickLevelDeduplicates(i) ==
  /\ clicks < MaxClicks
  /\ i \in DOMAIN RoadmapCards
  /\ IF \E r \in pending : requests[r].id = RoadmapCards[i]
       THEN UNCHANGED <<requests, pending>>
       ELSE /\ requests' = Append(requests, [url |-> "roadmap/level", id |-> RoadmapCards[i]])
            /\ pending' = pending \cup {Len(requests) + 1}
  /\ clicks' = clicks + 1
  /\ event' = [type |-> "clickLevel", id |-> RoadmapCards[i]]
  /\ history' = Append(history, [e |-> "click", req |-> Len(requests) + 1])
  /\ UNCHANGED <<view, fetchDataPc, roadmapRes, insightsRes>>

\* onClick={() => fetchLevelDetails(level.id)} of the i-th level card:
\* fetchLevelDetails runs up to its await, issuing the request.
ClickLevel(i) ==
  /\ clicks < MaxClicks
  /\ i \in DOMAIN RoadmapCards
  /\ requests' = Append(requests, [url |-> "roadmap/level", id |-> RoadmapCards[i]])
  /\ pending' = pending \cup {Len(requests) + 1}
  /\ clicks' = clicks + 1
  /\ event' = [type |-> "clickLevel", id |-> RoadmapCards[i]]
  /\ history' = Append(history, [e |-> "click", req |-> Len(requests) + 1])
  /\ UNCHANGED <<view, fetchDataPc, roadmapRes, insightsRes>>

\* fetchLevelDetails after its await, try branch, for request r answered d.
FetchLevelDetailsThen(r, d) ==
  /\ r \in pending
  /\ levelDetails' = d
  /\ selectedLevel' = requests[r].id
  /\ pending' = pending \ {r}
  /\ event' = [type |-> "detailFulfilled", id |-> requests[r].id, data |-> d]
  /\ history' = Append(history, [e |-> "ok", req |-> r])
  /\ UNCHANGED <<roadmapData, industryInsights, loading, activeTab, fetchDataPc,
                 roadmapRes, insightsRes, requests, clicks>>

\* fetchLevelDetails' catch branch closing the detail view.
FetchLevelDetailsCatchCloses(r) ==
  /\ r \in pending
  /\ pending' = pending \ {r}
  /\ selectedLevel' = Null
  /\ levelDetails' = NoDetails
  /\ event' = [type |-> "detailRejected", id |-> requests[r].id]
  /\ history' = Append(history, [e |-> "fail", req |-> r])
  /\ UNCHANGED <<roadmapData, industryInsights, loading, activeTab, fetchDataPc,
                 roadmapRes, insightsRes, requests, clicks>>

\* fetchLevelDetails after its await, catch branch, for request r.
FetchLevelDetailsCatch(r) ==
  /\ r \in pending
  /\ pending' = pending \ {r}
  /\ event' = [type |-> "detailRejected", id |-> requests[r].id]
  /\ history' = Append(history, [e |-> "fail", req |-> r])
  /\ UNCHANGED <<view, fetchDataPc, roadmapRes, insightsRes, requests, clicks>>

\* The close button forgetting setLevelDetails(null).
CloseDetailsKeepsBundle ==
  /\ Rendered("LevelDetails")
  /\ selectedLevel' = Null
  /\ event' = [type |-> "closeDetails"]
  /\ history' = Append(history, [e |-> "close", req |-> 0])
  /\ UNCHANGED <<roadmapData, levelDetails, industryInsights, loading, activeTab,
                 fetchDataPc, roadmapRes, insightsRes, requests, pending, clicks>>

\* onClick={() => {setSelectedLevel(null); setLevelDetails(null);}}
CloseDetails ==
  /\ Rendered("LevelDetails")
  /\ selectedLevel' = Null
  /\ levelDetails' = NoDetails
  /\ event' = [type |-> "closeDetails"]
  /\ history' = Append(history, [e |-> "close", req |-> 0])
  /\ UNCHANGED <<roadmapData, industryInsights, loading, activeTab, fetchDataPc,
                 roadmapRes, insightsRes, requests, pending, clicks>>

Next ==
  \/ Mount
  \/ \E d \in RoadmapResponses : RoadmapFulfilled(d)
  \/ RoadmapRejected
  \/ \E d \in InsightsResponses : InsightsFulfilled(d)
  \/ InsightsRejected
  \/ FetchDataThen
  \/ FetchDataCatch
  \/ \E t \in {"roadmap", "insights"} : ClickTab(t)
  \/ \E i \in 1..MaxLevels : ClickLevel(i)
  \/ \E r \in pending : \E d \in DetailResponses(requests[r].id) : FetchLevelDetailsThen(r, d)
  \/ \E r \in pending : FetchLevelDetailsCatch(r)
  \/ CloseDetails

Spec == Init /\ [][Next]_vars

\* The event loop always runs a continuation whose promise has settled.
LiveSpec == Spec /\ WF_vars(FetchDataThen) /\ WF_vars(FetchDataCatch)

(* ------------------------------- claims -------------------------------- *)

\* Whether the joint await of fetchData has settled and its continuation
\* has not yet run.
JointAwaitSettled ==
  fetchDataPc = "await" /\ PromiseAll(roadmapRes, insightsRes) # "pending"

\* C1: whenever the joint await of the two initial requests settles
\* (both succeed, one fails or both fail), loading eventually becomes false
\* and the spinner is no longer rendered.
C1_FetchDataClearsLoading ==
  JointAwaitSettled ~> (~loading /\ ~Rendered("Spinner"))

\* The initial fetch ended through its catch branch while the other request
\* was still in flight, and the spinner is gone.
C1_Witness ==
  /\ event.type = "fetchDataCatch"
  /\ roadmapRes = Rejected
  /\ insightsRes = Pending
  /\ ~loading
  /\ ~Rendered("Spinner")

Ids(list) == [i \in DOMAIN list |-> list[i].id]

\* C2: when both initial requests succeeded and loading is false,
\* roadmapData is the whole roadmap response and industryInsights the whole
\* insights response, and the panel on display shows one card per delivered
\* item, in the delivered order.
C2_BothCollectionsInFull ==
  (~loading /\ roadmapRes.status = "fulfilled" /\ insightsRes.status = "fulfilled")
    => /\ roadmapData = roadmapRes.data
       /\ industryInsights = insightsRes.data
       /\ activeTab = "roadmap" => RoadmapCards = Ids(roadmapRes.data)
       /\ activeTab = "insights" => InsightCards = Ids(insightsRes.data)

\* Both requests succeeded with two items each and the insights panel shows
\* its two cards in the delivered order.
C2_Witness ==
  /\ ~loading
  /\ roadmapRes.status = "fulfilled"
  /\ insightsRes.status = "fulfilled"
  /\ Len(roadmapData) = 2
  /\ InsightCards = <<2, 1>>

\* C3: clicking the card of a level X of the roadmap list issues a
\* detail request keyed by X's id, and when a detail request for X succeeds
\* the returned bundle becomes levelDetails, selectedLevel becomes X's id and
\* the detail view is displayed showing level X.
C3_ClickOpensClickedLevel ==
  [][ /\ event'.type = "clickLevel" =>
           /\ \E i \in DOMAIN roadmapData : roadmapData[i].id = event'.id
           /\ requests' = Append(requests, [url |-> "roadmap/level", id |-> event'.id])
      /\ event'.type = "detailFulfilled" =>
           /\ levelDetails' = event'.data
           /\ selectedLevel' = event'.id
           /\ Rendered("LevelDetails")'
           /\ ShownLevel'.id = event'.id ]_vars

\* C4: at most one detail view is displayed in every state, and right
\* after the close button is pressed selectedLevel and levelDetails are both
\* null and no detail view is displayed.
C4_OneDetailViewAndCloseClears ==
  /\ [](Count("LevelDetails") <= 1)
  /\ [][ event'.type = "closeDetails" =>
           /\ selectedLevel' = Null
           /\ levelDetails' = NoDetails
           /\ ~Rendered("LevelDetails")' ]_vars

\* The close button has just been pressed on an open detail view.
C4_Witness ==
  /\ event.type = "closeDetails"
  /\ selectedLevel = Null
  /\ levelDetails = NoDetails
  /\ Count("LevelDetails") = 0

Panels == Count("VisualRoadmap") + Count("IndustryInsights")

\* C5: activeTab starts as 'roadmap' and is always 'roadmap' or
\* 'insights'; whenever loading is false exactly one of the two panels is
\* rendered; each tab button sets activeTab to its own panel, which is then
\* the one rendered.
C5_ExactlyOnePanel ==
  /\ activeTab = "roadmap"
  /\ [](activeTab \in {"roadmap", "insights"})
  /\ [](~loading => Panels = 1)
  /\ [][ event'.type = "clickTab" =>
           /\ activeTab' = event'.tab
           /\ event'.tab = "roadmap" => Rendered("VisualRoadmap")'
           /\ event'.tab = "insights" => Rendered("IndustryInsights")' ]_vars

\* The insights button has just been pressed and the insights panel alone
\* is rendered.
C5_Witness ==
  /\ event.type = "clickTab"
  /\ event.tab = "insights"
  /\ Rendered("IndustryInsights")
  /\ ~Rendered("VisualRoadmap")

\* C6: when at least one of the two initial requests failed, after
\* fetchData has finished loading is false and roadmapData and
\* industryInsights are both still the empty list, also when the other
\* request delivered data.
C6_PartialFailureKeepsNothing ==
  (fetchDataPc = "done" /\ (roadmapRes = Rejected \/ insightsRes = Rejected))
    => /\ ~loading
       /\ roadmapData = <<>>
       /\ industryInsights = <<>>

\* The roadmap request delivered two levels, the insights request failed,
\* and nothing of the roadmap was kept.
C6_Witness ==
  /\ fetchDataPc = "done"
  /\ roadmapRes.status = "fulfilled"
  /\ Len(roadmapRes.data) = 2
  /\ insightsRes = Rejected
  /\ roadmapData = <<>>
  /\ ~loading

\* C7 as stated: exactly one of the spinner, the roadmap panel, the
\* insights panel and the level-detail view is rendered in every state.
C7_FourExclusiveBranches ==
  Count("Spinner") + Panels + Count("LevelDetails") = 1

\* C7 as amended: exactly one of the spinner, the roadmap panel and the
\* insights panel is rendered in every state; the level-detail view is never
\* rendered with the spinner, and when it is rendered it is rendered together
\* with the active panel.
C7_ThreeExclusiveBranchesAndOverlay ==
  /\ Count("Spinner") + Panels = 1
  /\ Rendered("LevelDetails") =>
       /\ ~Rendered("Spinner")
       /\ Panels = 1
       /\ Count("LevelDetails") = 1
       /\ Len(Render) = 2

\* The detail view is open over the insights panel.
C7_Witness ==
  /\ Rendered("LevelDetails")
  /\ Rendered("IndustryInsights")

\* C8: once fetchData has finished, no step changes roadmapData,
\* industryInsights or loading.
C8_CollectionsFrozenAfterFetch ==
  [][ fetchDataPc = "done" => UNCHANGED <<roadmapData, industryInsights, loading>> ]_vars

\* A detail response has been stored after the initial fetch delivered two
\* levels and two insights.
C8_Witness ==
  /\ fetchDataPc = "done"
  /\ event.type = "detailFulfilled"
  /\ Len(roadmapData) = 2
  /\ Len(industryInsights) = 2
  /\ ~loading

\* C9: selectedLevel is null exactly when levelDetails is null, and when
\* both are set levelDetails is a bundle the server returns for the id held
\* in selectedLevel, so levelDetails.level.id equals selectedLevel.
C9_BundleStoredWithSelection ==
  /\ selectedLevel = Null <=> levelDetails = NoDetails
  /\ selectedLevel # Null =>
       /\ levelDetails \in DetailResponses(selectedLevel)
       /\ levelDetails.level.id = selectedLevel

\* A bundle is stored while a request for another level is still in flight.
C9_Witness ==
  /\ selectedLevel # Null
  /\ levelDetails.level.id = selectedLevel
  /\ \E r \in pending : requests[r].id # selectedLevel

\* C10: a failed level-detail request changes none of selectedLevel,
\* levelDetails, activeTab, loading, roadmapData and industryInsights, so an
\* open detail view stays open on the same level and a closed one stays
\* closed.
C10_DetailFailureChangesNothing ==
  [][ event'.type = "detailRejected" =>
        /\ UNCHANGED view
        /\ Rendered("LevelDetails")' = Rendered("LevelDetails") ]_vars

\* A detail request has just failed while the detail view of an earlier
\* request is open.
C10_Witness ==
  /\ event.type = "detailRejected"
  /\ Rendered("LevelDetails")
  /\ ShownLevel.id = selectedLevel

\* The number of axios.get calls issued so far for the given endpoint.
Issued(url) == Cardinality({ r \in DOMAIN requests : requests[r].url = url })

\* C11: the roadmap-list request and the insights request are each
\* issued exactly once, at mount, and never again (also after a failure);
\* the number of detail requests issued equals the number of level-card
\* clicks; every click issues a new request for the clicked level, also when
\* one for the same level is in flight; no issued request is withdrawn: a
\* request leaves the set in flight only by being answered.
C11_NoRetryNoCancelNoDedup ==
  /\ [](fetchDataPc = "mount" => requests = <<>>)
  /\ [](fetchDataPc # "mount" =>
          /\ Issued("roadmap") = 1
          /\ Issued("industry-insights") = 1)
  /\ [](Issued("roadmap/level") = clicks)
  /\ [][ /\ Len(requests') >= Len(requests)
         /\ SubSeq(requests', 1, Len(requests)) = requests
         /\ pending \ pending' # {} => event'.type \in {"detailFulfilled", "detailRejected"}
         /\ event'.type = "clickLevel" =>
              /\ requests' = Append(requests, [url |-> "roadmap/level", id |-> event'.id])
              /\ pending' = pending \cup {Len(requests')}
              /\ Len(requests') \notin pending ]_vars

\* Two requests for the same level are in flight at once, after two clicks.
C11_Witness ==
  /\ clicks = 2
  /\ \E r1, r2 \in pending : r1 # r2 /\ requests[r1].id = requests[r2].id
  /\ Issued("roadmap") = 1
  /\ Issued("industry-insights") = 1

\* The user clicked two level cards in a row, both requests were in flight
\* together, both were answered successfully (in either order), and nothing
\* else happened to the detail view.
TwoClicksBothAnswered ==
  /\ Len(history) = 4
  /\ history[1].e = "click"
  /\ history[2].e = "click"
  /\ history[3].e = "ok"
  /\ history[4].e = "ok"

\* The level of the k-th entry of the history.
HistoryLevel(k) == requests[history[k].req].id

\* C12: after a click on level X, a click on level Y while X's request
\* is in flight, and both answers, in either order and with no other
\* interaction, no request is pending, selectedLevel is Y's id and the detail
\* view's content is level Y (the level clicked last). Whether the view is
\* rendered for that id is C3's matter and is left out here.
C12_LastClickedIsShown ==
  TwoClicksBothAnswered =>
    /\ pending = {}
    /\ selectedLevel = HistoryLevel(2)
    /\ ShownLevel.id = HistoryLevel(2)

\* The close button has been pressed and no level card has been clicked
\* since.
ClosedSinceLastClick ==
  \E i \in DOMAIN history :
    /\ history[i].e = "close"
    /\ \A j \in DOMAIN history : j > i => history[j].e # "click"

\* C13: in every state after a press of the close button and before
\* the next level-card click, selectedLevel and levelDetails are null (the
\* detail view stays closed), also when a request issued before the close is
\* answered after it.
C13_ClosedStaysClosed ==
  ClosedSinceLastClick =>
    /\ selectedLevel = Null
    /\ levelDetails = NoDetails
    /\ ~Rendered("LevelDetails")

====
